---------------------------- MODULE Spec2Model ----------------------------
(***************************************************************************)
(* A model of apptrace's instruments.py: the Recorder that scans the       *)
(* configured modules, allocates an index from a counter kept in memcache, *)
(* stores the JSON-encoded Record under RECORD_PREFIX + str(index), and    *)
(* reads the most recent records back.                                     *)
(*                                                                         *)
(* Python values are tagged records: [t |-> "int", v |-> 3],               *)
(* [t |-> "str", v |-> <<bytes>>], [t |-> "unicode", v |-> <<code points>>]*)
(* [t |-> "list", v |-> <<...>>], [t |-> "dict", v |-> [name |-> value]],  *)
(* [t |-> "NoneType"], and instances [t |-> "RecordEntry", d |-> __dict__].*)
(* Byte strings are sequences of byte values, so that str(), '%i' and      *)
(* string concatenation are computed, not assumed.                         *)
(***************************************************************************)
EXTENDS Integers, Sequences, FiniteSets, TLC

VARIABLES
    cache,       \* memcache: a function from the keys present to their values
    sys_modules, \* sys.modules: loaded module name -> module __dict__
    pc,          \* pc[p]: where tracer p is inside trace()
    record,      \* record[p]: the Record that trace() of p has built
    index,       \* index[p]: the local variable index of trace() of p
    calls,       \* number of trace() calls started so far
    allocs,      \* history: the indices allocated, in allocation order, since
                 \* the cache last dropped INDEX_KEY
    seen,        \* history: seen[p] = Len(allocs) when p started allocating
    ret,         \* history: how the trace() that returned last ended
    rpc,         \* where the reader is inside get_records()
    rlimit,      \* the reader's argument limit (as rebound on line 190)
    roffset,     \* the reader's argument offset
    rcurr,       \* the reader's local curr_index
    rkeys,       \* the reader's local keys
    rraw,        \* what get_raw_records last returned or raised
    rresult,     \* what get_records last returned or raised
    rops,        \* history: the cache operations the reader's call issued
    cin,         \* codec: the Record given to EncodeJSON
    ctext,       \* codec: what EncodeJSON returned or raised
    cout         \* codec: what Record.FromJSON returned or raised

vars == <<cache, sys_modules, pc, record, index, calls, allocs, seen, ret,
          rpc, rlimit, roffset, rcurr, rkeys, rraw, rresult, rops,
          cin, ctext, cout>>

tracerVars == <<pc, record, index, calls, allocs, seen, ret>>
readerVars == <<rpc, rlimit, roffset, rcurr, rkeys, rraw, rresult, rops>>
codecVars == <<cin, ctext, cout>>

(***************************************************************************)
(* Bounds of the model.                                                    *)
(***************************************************************************)
NumTracers == 2
MaxTraces == 3
MaxCounter == 5
MaxArg == 6
MaxEntries == 2

Tracers == 1..NumTracers
\* What hp.iso(obj).domisize answers: two sizes tell two snapshots of the
\* same object apart.
Sizes == {10, 20}

(***************************************************************************)
(* Python values.                                                          *)
(***************************************************************************)
PyNone == [t |-> "NoneType"]
PyInt(n) == [t |-> "int", v |-> n]
PyStr(s) == [t |-> "str", v |-> s]
PyUnicode(s) == [t |-> "unicode", v |-> s]
PyList(l) == [t |-> "list", v |-> l]
PyDict(d) == [t |-> "dict", v |-> d]
Raise(e) == [t |-> "raise", exc |-> e]

\* Mutant of Truthy: None taken for true.
TruthyNone(x) == x.t = "NoneType" \/ (x.t = "int" /\ x.v # 0)
\* Python truth value of x, as "if not curr_index" tests it.
Truthy(x) ==
    CASE x.t = "NoneType" -> FALSE
      [] x.t = "int" -> x.v # 0
      [] x.t \in {"str", "unicode", "list"} -> Len(x.v) > 0
      [] OTHER -> TRUE

\* The decimal digits of a natural number, as bytes.
RECURSIVE Decimal(_)
Decimal(n) ==
    IF n < 10 THEN <<48 + n>> ELSE Decimal(n \div 10) \o <<48 + (n % 10)>>

\* str(x) for the values trace() applies it to: an int or None.
Str(x) ==
    CASE x.t = "int" -> IF x.v < 0 THEN <<45>> \o Decimal(0 - x.v) ELSE Decimal(x.v)
      [] x.t = "NoneType" -> <<78, 111, 110, 101>>

\* '%i' % n for an int n.
FormatI(n) == IF n < 0 THEN <<45>> \o Decimal(0 - n) ELSE Decimal(n)


(***************************************************************************)
(* JSONSerializable, RecordEntry and Record.                               *)
(***************************************************************************)
\* The attribute names the classes set; k[3:] of '_k_' + a is a.
AttrNames == {"module_name", "name", "obj_type", "dominated_size", "entries"}
StartsWithK(k) == \E a \in AttrNames : "_k_" \o a = k
StripK(k) == CHOOSE a \in AttrNames : "_k_" \o a = k

NewObject(cls) == [t |-> cls, d |-> [k \in {} |-> PyNone]]

\* JSONSerializable.__setattr__ and __getattr__.
SetAttr(self, attr, value) ==
    [self EXCEPT !.d = [k \in DOMAIN self.d \cup {"_k_" \o attr} |->
                            IF k = "_k_" \o attr THEN value ELSE self.d[k]]]
GetAttr(self, attr) == self.d["_k_" \o attr]

\* The parameters of RecordEntry.__init__.
EntryFields == {"module_name", "name", "obj_type", "dominated_size"}

\* RecordEntry.__init__ and Record.__init__.
RecordEntryInit(module_name, name, obj_type, dominated_size) ==
    SetAttr(SetAttr(SetAttr(SetAttr(NewObject("RecordEntry"),
        "module_name", module_name), "name", name), "obj_type", obj_type),
        "dominated_size", dominated_size)
RecordInit(entries) == SetAttr(NewObject("Record"), "entries", entries)

\* A text that is the display of a Python value (what repr and unicode of a
\* dict produce), and eval of such a text.
DisplayText(value) == [t |-> "unicode", display |-> value]
Eval(text) == text.display

\* JSONSerializable.get_value, which RecordEntry inherits.
GetValueBase(value) == value

RECURSIVE Repr(_)

\* Record.get_value.
RecordGetValue(value) ==
    IF value.t = "list"
    THEN PyList([i \in 1..Len(value.v) |->
            IF value.v[i].t = "RecordEntry"
            THEN Eval(Repr(value.v[i]))
            ELSE value.v[i]])
    ELSE value

\* self.get_value: the class's own.
GetValue(cls, value) ==
    IF cls = "Record" THEN RecordGetValue(value) ELSE GetValueBase(value)

\* JSONSerializable.__repr__
Repr(self) ==
    DisplayText(PyDict(
        [a \in {StripK(k) : k \in {x \in DOMAIN self.d : StartsWithK(x)}} |->
            GetValue(self.t, self.d["_k_" \o a])]))

(***************************************************************************)
(* simplejson.  A JSON text is a str whose content is a document; the      *)
(* document is kept as its tree.  dumps decodes a byte string as UTF-8 and *)
(* raises when it is not; loads returns every string as unicode.           *)
(***************************************************************************)
JsonText(doc) == [t |-> "str", doc |-> doc]

\* The code points of a UTF-8 byte string of one- and two-byte sequences;
\* <<-1>> when the bytes are not UTF-8.
RECURSIVE Utf8Decode(_)
Utf8Decode(b) ==
    IF Len(b) = 0 THEN <<>>
    ELSE IF b[1] < 128
    THEN LET rest == Utf8Decode(Tail(b))
         IN  IF rest = <<-1>> THEN rest ELSE <<b[1]>> \o rest
    ELSE IF b[1] >= 194 /\ b[1] < 224 /\ Len(b) >= 2 /\ b[2] >= 128 /\ b[2] < 192
    THEN LET rest == Utf8Decode(Tail(Tail(b)))
         IN  IF rest = <<-1>> THEN rest
             ELSE <<(b[1] - 192) * 64 + (b[2] - 128)>> \o rest
    ELSE <<-1>>

JsonError(e) == [j |-> "error", exc |-> e]

RECURSIVE DumpsTree(_)
DumpsTree(value) ==
    CASE value.t = "int" -> [j |-> "number", n |-> value.v]
      [] value.t = "unicode" -> [j |-> "string", s |-> value.v]
      [] value.t = "str" ->
            LET cps == Utf8Decode(value.v)
            IN  IF cps = <<-1>> THEN JsonError("UnicodeDecodeError")
                ELSE [j |-> "string", s |-> cps]
      [] value.t = "NoneType" -> [j |-> "null"]
      [] value.t = "list" ->
            LET items == [i \in 1..Len(value.v) |-> DumpsTree(value.v[i])]
            IN  IF \E i \in 1..Len(items) : items[i].j = "error"
                THEN items[CHOOSE i \in 1..Len(items) : items[i].j = "error"
                              /\ \A k \in 1..(i - 1) : items[k].j # "error"]
                ELSE [j |-> "array", a |-> items]
      [] value.t = "dict" ->
            LET members == [k \in DOMAIN value.v |-> DumpsTree(value.v[k])]
            IN  IF \E k \in DOMAIN members : members[k].j = "error"
                THEN members[CHOOSE k \in DOMAIN members : members[k].j = "error"]
                ELSE [j |-> "object", m |-> members]
      [] OTHER -> JsonError("TypeError")

\* simplejson.dumps
Dumps(value) ==
    LET doc == DumpsTree(value)
    IN  IF doc.j = "error" THEN Raise(doc.exc) ELSE JsonText(doc)

RECURSIVE LoadsTree(_)
LoadsTree(doc) ==
    CASE doc.j = "number" -> PyInt(doc.n)
      [] doc.j = "string" -> PyUnicode(doc.s)
      [] doc.j = "null" -> PyNone
      [] doc.j = "array" -> PyList([i \in 1..Len(doc.a) |-> LoadsTree(doc.a[i])])
      [] doc.j = "object" -> PyDict([k \in DOMAIN doc.m |-> LoadsTree(doc.m[k])])

\* simplejson.loads
Loads(text) ==
    IF text.t = "str" /\ "doc" \in DOMAIN text THEN LoadsTree(text.doc)
    ELSE Raise("ValueError")

\* JSONSerializable.EncodeJSON
EncodeJSON(self) == Dumps(Eval(Repr(self)))

\* C(**kwargs) for the two classes: the keywords must be the parameters.
Construct(cls, kwargs) ==
    CASE cls = "RecordEntry" /\ DOMAIN kwargs = EntryFields ->
            RecordEntryInit(kwargs["module_name"], kwargs["name"],
                            kwargs["obj_type"], kwargs["dominated_size"])
      [] cls = "Record" /\ DOMAIN kwargs = {"entries"} ->
            RecordInit(kwargs["entries"])
      [] OTHER -> Raise("TypeError")

\* l[k] raises for a list l: k is no int (TypeError) or is out of range
\* (IndexError).
ListIndexFails(l, k) == k.t # "int" \/ k.v >= Len(l) \/ k.v < 0 - Len(l)

\* l[j] for a Python list l and an int j in range.
ListGet(l, j) == IF j >= 0 THEN l[j + 1] ELSE l[Len(l) + j + 1]

\* The least element of a set of numbers.
First(S) == CHOOSE i \in S : \A k \in S : i <= k

\* dict([(str(k), l[k]) for k in l]) for a list l: the items of l are the
\* indices.
ListIterItems(l) ==
    IF \E i \in 1..Len(l) : ListIndexFails(l, l[i])
    THEN (IF l[First({i \in 1..Len(l) : ListIndexFails(l, l[i])})].t = "int"
          THEN Raise("IndexError")
          ELSE Raise("TypeError"))
    ELSE PyDict([k \in {ToString(l[i].v) : i \in 1..Len(l)} |->
            ListGet(l, l[CHOOSE i \in 1..Len(l) : ToString(l[i].v) = k].v)])

\* dict([(str(k), x[k]) for k in x]): what a dict, a list or a string
\* gives, or the first exception.  (A string yields its characters, which
\* index nothing.)
IterItems(x) ==
    CASE x.t = "dict" -> PyDict([k \in DOMAIN x.v |-> x.v[k]])
      [] x.t = "list" -> ListIterItems(x.v)
      [] x.t \in {"unicode", "str"} /\ Len(x.v) = 0 -> PyDict([k \in {} |-> PyNone])
      [] OTHER -> Raise("TypeError")

\* JSONSerializable.make_args
MakeArgs(args) == IterItems(args)

\* Record.make_value
RecordMakeValue(value) ==
    IF value.t = "list"
    THEN LET new == [i \in 1..Len(value.v) |->
                        LET kw == MakeArgs(value.v[i])
                        IN  IF kw.t = "raise" THEN kw
                            ELSE Construct("RecordEntry", kw.v)]
             bad == {i \in 1..Len(new) : new[i].t = "raise"}
         IN  IF bad # {}
             THEN new[CHOOSE i \in bad : \A k \in bad : i <= k]
             ELSE PyList(new)
    ELSE value

\* JSONSerializable.make_value, which RecordEntry inherits.
MakeValueBase(value) == value

MakeValue(cls, value) ==
    IF cls = "Record" THEN RecordMakeValue(value) ELSE MakeValueBase(value)

\* JSONSerializable.FromJSON
FromJSON(cls, json) ==
    LET data == Loads(json)
    IN  IF data.t = "raise" THEN data
        ELSE LET items == IterItems(data)
             IN  IF items.t = "raise" THEN items
                 ELSE LET kw == [k \in DOMAIN items.v |-> MakeValue(cls, items.v[k])]
                      IN  IF \E k \in DOMAIN kw : kw[k].t = "raise"
                          THEN kw[CHOOSE k \in DOMAIN kw : kw[k].t = "raise"]
                          ELSE Construct(cls, kw)

(***************************************************************************)
(* The configuration (a middleware.Config, given to Recorder.__init__) and *)
(* the memcache API.  add, incr, get and get_multi are each one atomic     *)
(* operation of the cache; incr of an absent key changes nothing and       *)
(* returns None.                                                           *)
(***************************************************************************)
\* "i" and "r"
INDEX_KEY == <<105>>
RECORD_PREFIX == <<114>>
\* config.get_modules(): "m2", "m1" (a list that is not in sorted order)
Modules == << <<109, 50>>, <<109, 49>> >>
\* config.IGNORE_NAMES: "__name__"
IGNORE_NAMES == { <<95, 95, 110, 97, 109, 101, 95, 95>> }

EmptyCache == [k \in {} |-> PyNone]

\* Mutant of MemcacheAdd: set, which overwrites.
MemcacheSet(c, key, value) ==
    [k \in DOMAIN c \cup {key} |-> IF k = key THEN value ELSE c[k]]
MemcacheAdd(c, key, value) ==
    IF key \in DOMAIN c THEN c
    ELSE [k \in DOMAIN c \cup {key} |-> IF k = key THEN value ELSE c[k]]
\* Mutant of AddResult: an add that reports success whatever the cache holds.
AddResultAlways(c, key) == TRUE
AddResult(c, key) == key \notin DOMAIN c

\* Mutants of IncrValue: an incr that adds nothing, and one that adds 2.
IncrValueStuck(n) == n
IncrValueSkip(n) == n + 2
IncrValue(n) == n + 1
\* Mutant of MemcacheIncr: the new value is returned and not written.
MemcacheIncrLost(c, key) == c
MemcacheIncr(c, key) ==
    IF key \in DOMAIN c THEN [c EXCEPT ![key] = PyInt(IncrValue(c[key].v))] ELSE c
\* Mutant of IncrResult: the value before the increment is returned.
IncrResultOld(c, key) == IF key \in DOMAIN c THEN c[key] ELSE PyNone
IncrResult(c, key) ==
    IF key \in DOMAIN c THEN PyInt(IncrValue(c[key].v)) ELSE PyNone

MemcacheGet(c, key) == IF key \in DOMAIN c THEN c[key] ELSE PyNone

\* The mapping get_multi returns: the keys (without the prefix) that are
\* present, to their values.
MemcacheGetMulti(c, keys, key_prefix) ==
    [k \in {keys[i] : i \in {n \in 1..Len(keys) : key_prefix \o keys[n] \in DOMAIN c}}
        |-> c[key_prefix \o k]]

\* The cache without key (the cache may drop any key at any time).
Without(c, key) == [k \in DOMAIN c \ {key} |-> c[k]]

(***************************************************************************)
(* Recorder.trace: the scan of the configured modules (lines 152-168).     *)
(* domisize[<<module, key>>] is what hp.iso(obj).domisize answers.         *)
(***************************************************************************)
\* a < b for byte strings, as sorted() compares them.
RECURSIVE LexLess(_, _)
LexLess(a, b) ==
    IF Len(b) = 0 THEN FALSE
    ELSE IF Len(a) = 0 THEN TRUE
    ELSE IF a[1] # b[1] THEN a[1] < b[1]
    ELSE LexLess(Tail(a), Tail(b))

\* sorted(S)
RECURSIVE Sorted(_)
Sorted(S) ==
    IF S = {} THEN <<>>
    ELSE LET m == CHOOSE x \in S : \A y \in S \ {x} : LexLess(x, y)
         IN  <<m>> \o Sorted(S \ {m})

\* Mutant of ObjKeys: the ignore-set is not taken out.
ObjKeysUnfiltered(module_dict) == Sorted(DOMAIN module_dict)
\* obj_keys of line 158
ObjKeys(module_dict) == Sorted(DOMAIN module_dict \ IGNORE_NAMES)

\* The entries lines 160-168 append for one loaded module.
ModuleEntries(name, module_dict, domisize) ==
    LET obj_keys == ObjKeys(module_dict)
    IN  [i \in 1..Len(obj_keys) |->
            RecordEntryInit(PyStr(name), PyStr(obj_keys[i]),
                            PyStr(module_dict[obj_keys[i]].cls),
                            PyInt(domisize[<<name, obj_keys[i]>>]))]

RECURSIVE ScanEntries(_, _, _)
ScanEntries(names, mods, domisize) ==
    IF names = <<>> THEN <<>>
    ELSE (IF Head(names) \notin DOMAIN mods THEN <<>>
          ELSE ModuleEntries(Head(names), mods[Head(names)], domisize))
         \o ScanEntries(Tail(names), mods, domisize)

\* The objects the scan measures.
Measured(mods) ==
    {<<Modules[i], k>> : i \in {n \in 1..Len(Modules) : Modules[n] \in DOMAIN mods},
                         k \in UNION {DOMAIN mods[m] : m \in DOMAIN mods}}

\* sys.modules at the start: "m1" is loaded and holds X (a Foo) and
\* __name__ (a str); "m2" is not loaded.
InitModules ==
    [m \in { <<109, 49>> } |->
        [k \in { <<88>>, <<95, 95, 110, 97, 109, 101, 95, 95>> } |->
            IF k = <<88>> THEN [cls |-> <<70, 111, 111>>]
            ELSE [cls |-> <<115, 116, 114>>]]]

NoRecord == RecordInit(PyList(<<>>))
NoRet == [add |-> "none", exc |-> "none"]

(***************************************************************************)
(* Recorder.get_raw_records and Recorder.get_records.                      *)
(***************************************************************************)
\* Mutant of CandidateKeys: limit keys from the offset on (a page).
CandidateKeysPage(curr_index, limit, offset) ==
    LET last == IF curr_index < offset + limit THEN curr_index ELSE offset + limit
    IN  IF last <= offset THEN <<>>
        ELSE [n \in 1..(last - offset) |-> FormatI(curr_index - (offset + n - 1))]
\* Mutant of CandidateKeys: line 190 is left out, limit is not capped.
CandidateKeysUncapped(curr_index, limit, offset) ==
    IF limit <= offset THEN <<>>
    ELSE [n \in 1..(limit - offset) |-> FormatI(curr_index - (offset + n - 1))]
\* keys of line 192, after line 190 has rebound limit.
CandidateKeys(curr_index, limit, offset) ==
    LET lim == IF curr_index < limit THEN curr_index ELSE limit
    IN  IF lim <= offset THEN <<>>
        ELSE [n \in 1..(lim - offset) |-> FormatI(curr_index - (offset + n - 1))]

\* Mutants of RawRecords: the keys that are missing are skipped; the
\* values are returned oldest first.
RawRecordsSkip(c, keys) ==
    LET records == MemcacheGetMulti(c, keys, RECORD_PREFIX)
        F[n \in 0..Len(keys)] ==
            IF n = 0 THEN <<>>
            ELSE IF keys[n] \in DOMAIN records THEN Append(F[n - 1], records[keys[n]])
            ELSE F[n - 1]
    IN  PyList(F[Len(keys)])
RawRecordsOldestFirst(c, keys) ==
    LET records == MemcacheGetMulti(c, keys, RECORD_PREFIX)
    IN  IF \E i \in 1..Len(keys) : keys[i] \notin DOMAIN records
        THEN [t |-> "raise", exc |-> "KeyError", arg |-> keys[1]]
        ELSE PyList([i \in 1..Len(keys) |-> records[keys[Len(keys) + 1 - i]]])
\* Lines 194-197: records[key] raises KeyError at the first key that
\* get_multi did not return.
RawRecords(c, keys) ==
    LET records == MemcacheGetMulti(c, keys, RECORD_PREFIX)
        missing == {i \in 1..Len(keys) : keys[i] \notin DOMAIN records}
    IN  IF missing # {}
        THEN [t |-> "raise", exc |-> "KeyError",
              arg |-> keys[CHOOSE i \in missing : \A k \in missing : i <= k]]
        ELSE PyList([i \in 1..Len(keys) |-> records[keys[i]]])

\* Line 209, on what get_raw_records returned or raised.
DecodeRecords(raw) ==
    IF raw.t = "raise" THEN raw
    ELSE LET out == [i \in 1..Len(raw.v) |-> FromJSON("Record", raw.v[i])]
             bad == {i \in 1..Len(out) : out[i].t = "raise"}
         IN  IF bad # {} THEN out[CHOOSE i \in bad : \A k \in bad : i <= k]
             ELSE PyList(out)

(***************************************************************************)
(* The state machine.  A tracer runs trace(): the scan and memcache.add of *)
(* the counter, then (when add returned False) memcache.incr, then         *)
(* memcache.add of the record.  The scan is local to the caller, so it is  *)
(* one step with the first cache operation.  Other callers and the cache's *)
(* evictions interleave between the cache operations.  The reader runs     *)
(* get_records(): memcache.get of the counter, then memcache.get_multi.    *)
(* What a call of the reader returned stays in the state for one step,     *)
(* ReadReturn, which is local to the reader and is taken before any other  *)
(* step: no interleaving of cache operations is lost by that.              *)
(***************************************************************************)
\* The arguments the reader calls get_records with.
Limits == 0..MaxTraces
Offsets == {0, 1}

CodecIdle == cin = PyNone /\ ctext = PyNone /\ cout = PyNone

InitTracers ==
    /\ pc = [p \in Tracers |-> "idle"]
    /\ record = [p \in Tracers |-> NoRecord]
    /\ index = [p \in Tracers |-> PyNone]
    /\ calls = 0
    /\ allocs = <<>>
    /\ seen = [p \in Tracers |-> 0]
    /\ ret = NoRet

InitReader ==
    /\ rpc = "idle"
    /\ rlimit = 0
    /\ roffset = 0
    /\ rcurr = PyNone
    /\ rkeys = <<>>
    /\ rraw = PyNone
    /\ rresult = PyNone
    /\ rops = <<>>

Init ==
    /\ cache = EmptyCache
    /\ sys_modules = InitModules
    /\ InitTracers
    /\ InitReader
    /\ CodecIdle

\* Lines 149-173: the scan builds the record; index = 1;
\* memcache.add(key=INDEX_KEY, value=index).  sizes are the sizes the heap
\* inspector may answer.
TraceAddOf(p, sizes) ==
    /\ pc[p] = "idle"
    /\ rpc # "done"
    /\ calls < MaxTraces
    /\ calls' = calls + 1
    /\ \E domisize \in [Measured(sys_modules) -> sizes] :
          record' = [record EXCEPT ![p] =
              RecordInit(PyList(ScanEntries(Modules, sys_modules, domisize)))]
    /\ index' = [index EXCEPT ![p] = PyInt(1)]
    /\ seen' = [seen EXCEPT ![p] = Len(allocs)]
    /\ cache' = MemcacheAdd(cache, INDEX_KEY, index'[p])
    /\ IF AddResult(cache, INDEX_KEY)
       THEN /\ pc' = [pc EXCEPT ![p] = "store"]
            /\ allocs' = Append(allocs, index'[p])
       ELSE /\ pc' = [pc EXCEPT ![p] = "incr"]
            /\ allocs' = allocs
    /\ UNCHANGED <<sys_modules, ret, readerVars, codecVars>>

TraceAdd(p) == TraceAddOf(p, Sizes)

\* Line 174: index = memcache.incr(key=INDEX_KEY).
TraceIncr(p) ==
    /\ pc[p] = "incr"
    /\ rpc # "done"
    /\ index' = [index EXCEPT ![p] = IncrResult(cache, INDEX_KEY)]
    /\ cache' = MemcacheIncr(cache, INDEX_KEY)
    /\ allocs' = Append(allocs, index'[p])
    /\ pc' = [pc EXCEPT ![p] = "store"]
    /\ UNCHANGED <<sys_modules, record, calls, seen, ret, readerVars, codecVars>>

\* Mutant of RecordKey: the key is built from the index 1 of line 172, not
\* from the index allocated.
RecordKeyFirst(idx) == RECORD_PREFIX \o Str(PyInt(1))
\* The key of line 175.
RecordKey(idx) == RECORD_PREFIX \o Str(idx)

\* Lines 175-176: memcache.add(key=key, value=record.EncodeJSON()); the
\* result of add is not looked at, and trace() returns.
TraceStore(p) ==
    /\ pc[p] = "store"
    /\ rpc # "done"
    /\ LET key == RecordKey(index[p])
           value == EncodeJSON(record[p])
       IN  IF value.t = "raise"
           THEN /\ cache' = cache
                /\ ret' = [add |-> "none", exc |-> value.exc]
           ELSE /\ cache' = MemcacheAdd(cache, key, value)
                /\ ret' = [add |-> IF AddResult(cache, key) THEN "true" ELSE "false",
                           exc |-> "none"]
    /\ pc' = [pc EXCEPT ![p] = "idle"]
    /\ index' = [index EXCEPT ![p] = PyNone]
    /\ record' = [record EXCEPT ![p] = NoRecord]
    /\ seen' = [seen EXCEPT ![p] = 0]
    /\ UNCHANGED <<sys_modules, calls, allocs, readerVars, codecVars>>

\* The cache drops the counter.
EvictIndex ==
    /\ rpc # "done"
    /\ INDEX_KEY \in DOMAIN cache
    /\ cache' = Without(cache, INDEX_KEY)
    /\ allocs' = <<>>
    /\ UNCHANGED <<sys_modules, pc, record, index, calls, seen, ret,
                   readerVars, codecVars>>

\* The cache drops a record.
EvictRecord ==
    /\ rpc # "done"
    /\ \E key \in DOMAIN cache \ {INDEX_KEY} : cache' = Without(cache, key)
    /\ UNCHANGED <<sys_modules, tracerVars, readerVars, codecVars>>

\* Lines 186-192 (get_records calls get_raw_records): memcache.get of the
\* counter; return [] when it is false, else compute the keys.  (A true
\* value that is no number makes xrange raise TypeError; the counter is
\* always a number or absent.)
ReadIndexOf(limits, offsets) ==
    /\ rpc = "idle"
    /\ \E limit \in limits, offset \in offsets :
          /\ rlimit' = limit
          /\ roffset' = offset
    /\ rcurr' = MemcacheGet(cache, INDEX_KEY)
    /\ rops' = <<"get">>
    /\ IF ~Truthy(rcurr')
       THEN /\ rkeys' = <<>>
            /\ rraw' = PyList(<<>>)
            /\ rresult' = DecodeRecords(rraw')
            /\ rpc' = "done"
       ELSE IF rcurr'.t # "int"
       THEN /\ rkeys' = <<>>
            /\ rraw' = Raise("TypeError")
            /\ rresult' = DecodeRecords(rraw')
            /\ rpc' = "done"
       ELSE /\ rkeys' = CandidateKeys(rcurr'.v, rlimit', roffset')
            /\ rraw' = PyNone
            /\ rresult' = PyNone
            /\ rpc' = "multi"
    /\ UNCHANGED <<cache, sys_modules, tracerVars, codecVars>>

ReadIndex == ReadIndexOf(Limits, Offsets)

\* Mutant of ReadMulti: a reader that deletes the records it has read.
ReadMultiConsuming ==
    /\ rpc = "multi"
    /\ rops' = Append(rops, "get_multi")
    /\ rraw' = RawRecords(cache, rkeys)
    /\ rresult' = DecodeRecords(rraw')
    /\ rpc' = "done"
    /\ cache' = [k \in DOMAIN cache \ {RECORD_PREFIX \o rkeys[i] : i \in 1..Len(rkeys)}
                    |-> cache[k]]
    /\ UNCHANGED <<sys_modules, tracerVars, rlimit, roffset, rcurr, rkeys, codecVars>>

\* Lines 194-197 and 209: memcache.get_multi, the list of the values in
\* the order of keys, and Record.FromJSON of each.
ReadMulti ==
    /\ rpc = "multi"
    /\ rops' = Append(rops, "get_multi")
    /\ rraw' = RawRecords(cache, rkeys)
    /\ rresult' = DecodeRecords(rraw')
    /\ rpc' = "done"
    /\ UNCHANGED <<cache, sys_modules, tracerVars, rlimit, roffset, rcurr,
                   rkeys, codecVars>>

\* get_records has returned or raised: its caller has the result.
ReadReturn ==
    /\ rpc = "done"
    /\ rpc' = "idle"
    /\ rlimit' = 0
    /\ roffset' = 0
    /\ rcurr' = PyNone
    /\ rkeys' = <<>>
    /\ rraw' = PyNone
    /\ rresult' = PyNone
    /\ rops' = <<>>
    /\ UNCHANGED <<cache, sys_modules, tracerVars, codecVars>>

Next ==
    \/ \E p \in Tracers : TraceAdd(p)
    \/ \E p \in Tracers : TraceIncr(p)
    \/ \E p \in Tracers : TraceStore(p)
    \/ EvictIndex
    \/ EvictRecord
    \/ ReadIndex
    \/ ReadMulti
    \/ ReadReturn

NextNoEvict ==
    \/ \E p \in Tracers : TraceAdd(p)
    \/ \E p \in Tracers : TraceIncr(p)
    \/ \E p \in Tracers : TraceStore(p)
    \/ ReadIndex
    \/ ReadMulti
    \/ ReadReturn

\* Concurrent traces with a cache that may drop any key; no reader.
NextEvict ==
    \/ \E p \in Tracers : TraceAdd(p)
    \/ \E p \in Tracers : TraceIncr(p)
    \/ \E p \in Tracers : TraceStore(p)
    \/ EvictIndex
    \/ EvictRecord

\* One caller of trace() at a time, a cache that may drop any key, and the
\* reader.
NextRead ==
    \/ TraceAdd(1)
    \/ TraceIncr(1)
    \/ TraceStore(1)
    \/ EvictIndex
    \/ EvictRecord
    \/ ReadIndex
    \/ ReadMulti
    \/ ReadReturn

\* One caller of trace() at a time: the calls are sequential.
NextSeq ==
    \/ TraceAdd(1)
    \/ TraceIncr(1)
    \/ TraceStore(1)
    \/ ReadIndex
    \/ ReadMulti
    \/ ReadReturn

\* Concurrent traces and reads with a cache that may drop any key.
Spec == Init /\ [][Next]_vars

\* Concurrent traces and reads with a cache that drops nothing.
SpecNoEvict == Init /\ [][NextNoEvict]_vars

SpecEvict == Init /\ [][NextEvict]_vars

SpecRead == Init /\ [][NextRead]_vars

\* Sequential traces, and reads, with a cache that drops nothing.
SpecSeq == Init /\ [][NextSeq]_vars

(***************************************************************************)
(* trace() run without interference: one caller, and the cache drops keys  *)
(* only between two calls, never while a call is between its cache         *)
(* operations.                                                             *)
(***************************************************************************)
EvictIndexBetweenCalls == pc[1] = "idle" /\ EvictIndex
EvictRecordBetweenCalls == pc[1] = "idle" /\ EvictRecord

NextAlone ==
    \/ TraceAdd(1)
    \/ TraceIncr(1)
    \/ TraceStore(1)
    \/ EvictIndexBetweenCalls
    \/ EvictRecordBetweenCalls

SpecAlone == Init /\ [][NextAlone]_vars

(***************************************************************************)
(* get_raw_records on its own: the cache as max sequential traces leave it *)
(* (the counter at c, a record under each of 1..c), or empty, and the      *)
(* reader called with any limit and offset of -1..MaxArg.                  *)
(***************************************************************************)
\* The record a scan builds when every object measures 10 bytes.
PlainRecord ==
    RecordInit(PyList(ScanEntries(Modules, InitModules,
                                  [o \in Measured(InitModules) |-> 10])))

\* The cache after c traces, one after the other, of PlainRecord.
CacheAfter(c) ==
    IF c = 0 THEN EmptyCache
    ELSE [k \in {INDEX_KEY} \cup {RecordKey(PyInt(i)) : i \in 1..c} |->
            IF k = INDEX_KEY THEN PyInt(c) ELSE EncodeJSON(PlainRecord)]

WideArgs == (0 - 1)..MaxArg

InitKeys ==
    /\ \E c \in 0..MaxCounter : cache = CacheAfter(c)
    /\ sys_modules = InitModules
    /\ InitTracers
    /\ InitReader
    /\ CodecIdle

ReadIndexWide == ReadIndexOf(WideArgs, WideArgs)

NextKeys ==
    \/ ReadIndexWide
    \/ ReadMulti
    \/ ReadReturn

SpecKeys == InitKeys /\ [][NextKeys]_vars

(***************************************************************************)
(* The scan of trace() over any sys.modules: each of the configured        *)
(* modules "m2" and "m1" is not loaded or is loaded with any of X, Y and   *)
(* __name__; "m0", which is not configured, is loaded or not.  One caller, *)
(* and every object measures 10 bytes.                                     *)
(***************************************************************************)
\* "X", "Y" and "__name__"
AttrX == <<88>>
AttrY == <<89>>
AttrName == <<95, 95, 110, 97, 109, 101, 95, 95>>

\* obj.__class__.__name__ of the object under a key: Foo, Bar, str.
ClassOf(k) ==
    IF k = AttrX THEN <<70, 111, 111>>
    ELSE IF k = AttrY THEN <<66, 97, 114>>
    ELSE <<115, 116, 114>>

ModuleDicts == {[k \in S |-> [cls |-> ClassOf(k)]] : S \in SUBSET {AttrX, AttrY, AttrName}}

\* "m0", a module no configuration names.
OtherModule == <<109, 48>>

ModuleTables ==
    {mods \in UNION {[L -> ModuleDicts] :
                        L \in SUBSET ({Modules[i] : i \in 1..Len(Modules)} \cup {OtherModule})} :
        OtherModule \in DOMAIN mods =>
            DOMAIN mods[OtherModule] = {AttrX, AttrY, AttrName}}

InitScan ==
    /\ cache = EmptyCache
    /\ sys_modules \in ModuleTables
    /\ InitTracers
    /\ InitReader
    /\ CodecIdle

TraceScan == TraceAddOf(1, {10})

NextScan ==
    \/ TraceScan
    \/ TraceIncr(1)
    \/ TraceStore(1)

SpecScan == InitScan /\ [][NextScan]_vars

(***************************************************************************)
(* The codec on its own: EncodeJSON of a Record, then Record.FromJSON of   *)
(* the text.  The strings are Python 2 strings: str (bytes) or unicode.    *)
(***************************************************************************)
\* 'a', 'é' in UTF-8, the byte E9 (not UTF-8), u'é'.
AsciiStr == PyStr(<<97>>)
Strings == {AsciiStr, PyStr(<<195, 169>>), PyStr(<<233>>), PyUnicode(<<233>>)}

\* Entries with at most one string that is not AsciiStr.
Entries ==
    {RecordEntryInit(m, n, o, PyInt(d)) :
        <<m, n, o>> \in {w \in Strings \X Strings \X Strings :
                            Cardinality({i \in 1..3 : w[i] # AsciiStr}) <= 1},
        d \in {0, 10}}

SeqsUpTo(S, n) == UNION {[1..k -> S] : k \in 0..n}

WellFormedRecords == {RecordInit(PyList(es)) : es \in SeqsUpTo(Entries, MaxEntries)}

InitCodec ==
    /\ cache = EmptyCache
    /\ sys_modules = InitModules
    /\ InitTracers
    /\ InitReader
    /\ cin \in WellFormedRecords
    /\ ctext = PyNone
    /\ cout = PyNone

\* text = record.EncodeJSON()
CodecEncode ==
    /\ ctext = PyNone
    /\ ctext' = EncodeJSON(cin)
    /\ UNCHANGED <<cache, sys_modules, tracerVars, readerVars, cin, cout>>

\* Record.FromJSON(text)
CodecDecode ==
    /\ ctext # PyNone
    /\ ctext.t # "raise"
    /\ cout = PyNone
    /\ cout' = FromJSON("Record", ctext)
    /\ UNCHANGED <<cache, sys_modules, tracerVars, readerVars, cin, ctext>>

NextCodec ==
    \/ CodecEncode
    \/ CodecDecode

SpecCodec == InitCodec /\ [][NextCodec]_vars

(***************************************************************************)
(* Record.FromJSON on its own, given any text: what is no JSON document,   *)
(* documents that are no record, and records whose entries lack a field,   *)
(* hold a value of another type, hold null, or have a field too many.      *)
(***************************************************************************)
JString(s) == [j |-> "string", s |-> s]
JNumber(n) == [j |-> "number", n |-> n]
JNull == [j |-> "null"]
JArray(a) == [j |-> "array", a |-> a]
JObject(m) == [j |-> "object", m |-> m]

\* {"module_name": "a", "name": "a", "obj_type": "a", "dominated_size": 10}
GoodEntryMembers ==
    [f \in EntryFields |-> IF f = "dominated_size" THEN JNumber(10) ELSE JString(<<97>>)]

\* The entry with field f given a number where a string belongs, and the
\* string "10" where the number belongs.
Mistyped(f) ==
    [GoodEntryMembers EXCEPT ![f] =
        IF f = "dominated_size" THEN JString(<<49, 48>>) ELSE JNumber(10)]

EntryDocs ==
    {JObject(GoodEntryMembers)}
    \cup {JObject([g \in EntryFields \ {f} |-> GoodEntryMembers[g]]) : f \in EntryFields}
    \cup {JObject(Mistyped(f)) : f \in EntryFields}
    \cup {JObject([GoodEntryMembers EXCEPT ![f] = JNull]) : f \in EntryFields}
    \cup {JObject([g \in EntryFields \cup {"extra"} |->
                    IF g = "extra" THEN JNull ELSE GoodEntryMembers[g]])}
    \cup {JNull, JArray(<<JNumber(1)>>)}

RecordDoc(es) == JObject([k \in {"entries"} |-> JArray(es)])

\* Documents that are no record of a list of entries.
OtherDocs ==
    {JNumber(1), JString(<<97>>), JArray(<<>>), JArray(<<JNumber(1)>>),
     JArray(<<JNumber(0)>>), JObject([k \in {} |-> JNull]),
     JObject([k \in {"entries"} |-> JNumber(5)]),
     JObject([k \in {"entries", "extra"} |-> JArray(<<>>)])}

\* '{' and '': no JSON documents.
InvalidTexts == {PyStr(<<123>>), PyStr(<<>>)}

DecodeTexts ==
    {JsonText(RecordDoc(es)) : es \in SeqsUpTo(EntryDocs, MaxEntries)}
    \cup {JsonText(d) : d \in OtherDocs}
    \cup InvalidTexts

InitDecode ==
    /\ cache = EmptyCache
    /\ sys_modules = InitModules
    /\ InitTracers
    /\ InitReader
    /\ cin = PyNone
    /\ ctext \in DecodeTexts
    /\ cout = PyNone

NextDecode == CodecDecode

SpecDecode == InitDecode /\ [][NextDecode]_vars

(***************************************************************************)
(* The claims.                                                             *)
(***************************************************************************)
\* <<1, 2, ..., n>> as Python ints.
UpTo(n) == [i \in 1..n |-> PyInt(i)]

\* C1: starting from a cache with no INDEX_KEY and with no eviction, the
\* trace() calls made one after the other allocate 1, 2, ..., N in that
\* order: the first allocation is 1, the n-th call holds index n, and the
\* allocations so far have no repeats and no gaps.
C1_SequentialIndices ==
    /\ allocs = UpTo(Len(allocs))
    /\ pc[1] = "store" => index[1] = PyInt(calls) /\ Len(allocs) = calls
    /\ pc[1] = "incr" => Len(allocs) = calls - 1
    /\ pc[1] = "idle" => Len(allocs) = calls

C1_Witness ==
    /\ calls = MaxTraces
    /\ pc[1] = "idle"
    /\ allocs = UpTo(MaxTraces)
    /\ allocs[1] = PyInt(1)
    /\ \A i \in 1..MaxTraces : RecordKey(PyInt(i)) \in DOMAIN cache

\* C2: with atomic add and incr and no eviction, in every interleaving of
\* concurrent trace() calls the allocated indices are pairwise distinct and
\* are exactly the set 1..N, and the index a caller holds is greater than
\* every index whose allocation was complete when that caller's allocation
\* started.
C2_ConcurrentIndices ==
    /\ \A i, j \in 1..Len(allocs) : i # j => allocs[i] # allocs[j]
    /\ {allocs[i] : i \in 1..Len(allocs)} = {PyInt(n) : n \in 1..Len(allocs)}
    /\ \A p, q \in Tracers :
          p # q /\ pc[p] = "store" /\ pc[q] = "store" => index[p] # index[q]
    /\ \A p \in Tracers :
          pc[p] = "store" =>
             /\ index[p] \in {allocs[i] : i \in 1..Len(allocs)}
             /\ \A i \in 1..seen[p] : allocs[i].v < index[p].v

C2_Witness ==
    /\ pc[1] = "store"
    /\ pc[2] = "store"
    /\ seen[1] = 1
    /\ seen[2] = 1
    /\ index[1] = PyInt(3)
    /\ index[2] = PyInt(2)

\* C3: the store is write-once.  When a trace() attempts to store its
\* snapshot under a record key that is present, the cache is left as it was
\* (the value under that key unchanged, the new snapshot under no other
\* key), the call ends there without another attempt, and it reports no
\* error to its caller.
C3_WriteOnce ==
    [][\A p \in Tracers :
          (pc[p] = "store" /\ pc'[p] # "store"
              /\ RecordKey(index[p]) \in DOMAIN cache) =>
             /\ cache' = cache
             /\ pc'[p] = "idle"
             /\ calls' = calls
             /\ ret' = [add |-> "false", exc |-> "none"]]_vars

C3_Witness ==
    /\ ret = [add |-> "false", exc |-> "none"]
    /\ \E p \in Tracers : pc[p] = "idle"
    /\ \E k \in DOMAIN cache : k # INDEX_KEY

\* The allocations that returned a number.
Numbers(seq) == SelectSeq(seq, LAMBDA x : x.t = "int")

\* C4: after the cache has dropped INDEX_KEY, whatever records it still
\* holds, the next allocation is 1 again and the allocations after it are
\* 2, 3, ...; a store that meets a record already under its key is dropped
\* and that record keeps its value.
C4_CounterReset ==
    /\ [](Numbers(allocs) = UpTo(Len(Numbers(allocs))))
    /\ [][\A p \in Tracers :
            /\ (pc[p] = "idle" /\ pc'[p] # "idle" /\ INDEX_KEY \notin DOMAIN cache) =>
                  /\ pc'[p] = "store"
                  /\ index'[p] = PyInt(1)
                  /\ cache'[INDEX_KEY] = PyInt(1)
                  /\ \A k \in DOMAIN cache : k \in DOMAIN cache' /\ cache'[k] = cache[k]
            /\ (pc[p] = "incr" /\ pc'[p] # "incr" /\ INDEX_KEY \in DOMAIN cache) =>
                  /\ index'[p] = PyInt(cache[INDEX_KEY].v + 1)
                  /\ cache'[INDEX_KEY] = index'[p]
            /\ (pc[p] = "store" /\ pc'[p] # "store"
                  /\ RecordKey(index[p]) \in DOMAIN cache) =>
                  cache'[RecordKey(index[p])] = cache[RecordKey(index[p])]]_vars

\* The counter was dropped after a record was stored at 1; the next two
\* traces took 1 and 2, and the store at 1 was dropped: the record at 1 is
\* not the snapshot that trace had built.
C4_Witness ==
    /\ calls = 3
    /\ allocs = UpTo(2)
    /\ ret.add = "false"
    /\ \E p \in Tracers : pc[p] = "store" /\ index[p] = PyInt(2)
    /\ RecordKey(PyInt(1)) \in DOMAIN cache
    /\ RecordKey(PyInt(2)) \notin DOMAIN cache

\* C5: when the counter is K and a snapshot is stored under each of 1..K
\* (no eviction), get_records(limit=K, offset=0) returns exactly K Records,
\* and the one at position j (from 0) is the snapshot stored at index K - j:
\* encoding it gives the text stored under that key.  The most recent
\* snapshot is first, the one at index 1 last.
C5_NewestFirst ==
    (/\ rpc = "done"
     /\ rcurr.t = "int"
     /\ rlimit = rcurr.v
     /\ roffset = 0
     /\ \A i \in 1..rcurr.v : RecordKey(PyInt(i)) \in DOMAIN cache) =>
        /\ rresult.t = "list"
        /\ Len(rresult.v) = rcurr.v
        /\ \A j \in 0..(rcurr.v - 1) :
              /\ rresult.v[j + 1].t = "Record"
              /\ EncodeJSON(rresult.v[j + 1]) = cache[RecordKey(PyInt(rcurr.v - j))]

C5_Witness ==
    /\ rpc = "done"
    /\ rcurr = PyInt(3)
    /\ rlimit = 3
    /\ roffset = 0
    /\ rresult.t = "list"
    /\ Len(rresult.v) = 3
    /\ rresult.v[1] # rresult.v[3]
    /\ EncodeJSON(rresult.v[1]) = cache[RecordKey(PyInt(3))]

\* C6: when INDEX_KEY is absent from the cache, get_raw_records returns an
\* empty sequence for every limit and offset, whatever record keys are
\* present, and issues no multi-key read.
C6_EmptyWithoutCounter ==
    (rpc = "done" /\ rcurr = PyNone) =>
        /\ rraw = PyList(<<>>)
        /\ rresult = PyList(<<>>)
        /\ rops = <<"get">>

C6_Witness ==
    /\ rpc = "done"
    /\ rcurr = PyNone
    /\ rraw = PyList(<<>>)
    /\ rlimit > 0
    /\ RecordKey(PyInt(1)) \in DOMAIN cache

\* The number a string of decimal digits denotes.
RECURSIVE DecimalValue(_)
DecimalValue(b) ==
    IF Len(b) = 0 THEN 0
    ELSE 10 * DecimalValue(SubSeq(b, 1, Len(b) - 1)) + (b[Len(b)] - 48)

Min(a, b) == IF a < b THEN a ELSE b

\* C7: for a counter value c and arguments limit and offset,
\* get_raw_records requests exactly the indices c - i for i = offset, ...,
\* min(limit, c) - 1, in that order: min(limit, c) - offset indices when
\* offset < min(limit, c), none otherwise.
C7_CandidateIndices ==
    (rpc \in {"multi", "done"} /\ rcurr.t = "int") =>
        LET c == rcurr.v
            m == Min(rlimit, c)
        IN  /\ Len(rkeys) = IF roffset < m THEN m - roffset ELSE 0
            /\ \A i \in roffset..(m - 1) :
                  /\ rkeys[i - roffset + 1][1] # 45
                  /\ DecimalValue(rkeys[i - roffset + 1]) = c - i

\* A call with offset > 0 that requests fewer than limit indices although
\* more than limit records lie below the offset.
C7_Witness ==
    /\ rpc = "multi"
    /\ rcurr = PyInt(5)
    /\ rlimit = 3
    /\ roffset = 1
    /\ rkeys = << <<52>>, <<51>> >>

\* C8: when a candidate key is not in the cache at the multi-key read, the
\* call raises KeyError for the first such key; it never returns a list
\* shorter than the candidate list, and what it returns holds, position by
\* position, the values under the candidate keys.
C8_MissingKeyRaises ==
    (rpc = "done" /\ rops = <<"get", "get_multi">>) =>
        LET missing == {i \in 1..Len(rkeys) : RECORD_PREFIX \o rkeys[i] \notin DOMAIN cache}
        IN  IF missing # {}
            THEN /\ rraw.t = "raise"
                 /\ rraw.exc = "KeyError"
                 /\ rraw.arg = rkeys[CHOOSE i \in missing : \A k \in missing : i <= k]
                 /\ rresult = rraw
            ELSE /\ rraw.t = "list"
                 /\ Len(rraw.v) = Len(rkeys)
                 /\ \A i \in 1..Len(rkeys) : rraw.v[i] = cache[RECORD_PREFIX \o rkeys[i]]

\* The newest candidate is missing and an older one is present.
C8_Witness ==
    /\ rpc = "done"
    /\ Len(rkeys) >= 2
    /\ RECORD_PREFIX \o rkeys[1] \notin DOMAIN cache
    /\ RECORD_PREFIX \o rkeys[2] \in DOMAIN cache
    /\ rraw.t = "raise"

\* C9: retrieval writes nothing.  No step of get_records changes the cache
\* (the counter and every record stay as they are), whether the call
\* returns records, returns empty or raises, and a call issues one
\* single-key read, then at most one multi-key read.
C9_ReadOnly ==
    /\ [](rops \in {<<>>, <<"get">>, <<"get", "get_multi">>})
    /\ [](rpc = "multi" => rops = <<"get">>)
    /\ [](rpc = "done" => rops # <<>>)
    /\ [][rpc' # rpc => cache' = cache]_vars

C9_Witness ==
    /\ rpc = "done"
    /\ rops = <<"get", "get_multi">>
    /\ rraw.t = "list"
    /\ Len(rraw.v) = 2
    /\ Cardinality(DOMAIN cache) = 3

\* Python's == on the values entries hold: a str equals a unicode only when
\* it is ASCII and has the same characters.
PyEq(a, b) ==
    CASE a.t = b.t -> a = b
      [] a.t = "str" /\ b.t = "unicode" ->
            (\A i \in 1..Len(a.v) : a.v[i] < 128) /\ a.v = b.v
      [] a.t = "unicode" /\ b.t = "str" ->
            (\A i \in 1..Len(b.v) : b.v[i] < 128) /\ a.v = b.v
      [] OTHER -> FALSE

\* b is a Record with as many entries as a, in the same order, each with
\* the same four field values (under Python's ==).
SameRecord(a, b) ==
    /\ b.t = "Record"
    /\ GetAttr(b, "entries").t = "list"
    /\ LET ea == GetAttr(a, "entries").v
           eb == GetAttr(b, "entries").v
       IN  /\ Len(eb) = Len(ea)
           /\ \A i \in 1..Len(ea) :
                 /\ eb[i].t = "RecordEntry"
                 /\ \A f \in EntryFields : PyEq(GetAttr(ea[i], f), GetAttr(eb[i], f))

\* C10: round trip.  For every well-formed Record s, s.EncodeJSON() returns
\* a text, and Record.FromJSON of it has the same number of entries in the
\* same order with the same four field values per entry.
C10_RoundTrip ==
    /\ ctext # PyNone => ctext.t # "raise"
    /\ cout # PyNone => SameRecord(cin, cout)

\* An entry of a document that lacks one of the four fields or holds a
\* value of the wrong type for one (or is no object at all).
BadEntryDoc(e) ==
    \/ e.j # "object"
    \/ \E f \in EntryFields :
          \/ f \notin DOMAIN e.m
          \/ e.m[f].j # (IF f = "dominated_size" THEN "number" ELSE "string")

\* The text is a record document with a list of entries.
IsRecordText(text) ==
    /\ "doc" \in DOMAIN text
    /\ text.doc.j = "object"
    /\ "entries" \in DOMAIN text.doc.m
    /\ text.doc.m["entries"].j = "array"

\* C11: decoding rejects bad input.  Record.FromJSON raises the parse error
\* (ValueError) when the text is no JSON document, and raises another error
\* (the schema error) when an entry lacks one of module_name, name,
\* obj_type, dominated_size or holds a value of the wrong type for one of
\* them; it never returns a Record built from such an entry.
C11_DecodeRejects ==
    (cin = PyNone /\ cout # PyNone) =>
        /\ "doc" \notin DOMAIN ctext => cout = Raise("ValueError")
        /\ (/\ IsRecordText(ctext)
            /\ \E i \in 1..Len(ctext.doc.m["entries"].a) :
                  BadEntryDoc(ctext.doc.m["entries"].a[i])) =>
              /\ cout.t = "raise"
              /\ cout.exc # "ValueError"

\* The position of a module name in the configured list.
ModulePosition(m) == CHOOSE i \in 1..Len(Modules) : Modules[i] = m

\* The (module, attribute) pairs the snapshot is to cover.
ScanPairs ==
    UNION {{<<m, k>> : k \in DOMAIN sys_modules[m] \ IGNORE_NAMES} :
              m \in {Modules[i] : i \in 1..Len(Modules)} \cap DOMAIN sys_modules}

\* C12: the snapshot trace() has built holds exactly one entry per
\* (configured module that is loaded, attribute name of it outside the
\* ignore-set), each with the class name of the object under that name;
\* the modules are in the order of the configured list, the entries of one
\* module in ascending order of name; a module that is not loaded (or not
\* configured) has no entry, and no ignored name has one.
C12_ScanEntries ==
    pc[1] # "idle" =>
        LET es == GetAttr(record[1], "entries").v
            mod(i) == GetAttr(es[i], "module_name").v
            key(i) == GetAttr(es[i], "name").v
        IN  /\ {<<mod(i), key(i)>> : i \in 1..Len(es)} = ScanPairs
            /\ Len(es) = Cardinality(ScanPairs)
            /\ \A i \in 1..Len(es) :
                  /\ es[i].t = "RecordEntry"
                  /\ key(i) \notin IGNORE_NAMES
                  /\ mod(i) \in DOMAIN sys_modules
                  /\ GetAttr(es[i], "obj_type") = PyStr(sys_modules[mod(i)][key(i)].cls)
                  /\ GetAttr(es[i], "dominated_size") = PyInt(10)
            /\ \A i, j \in 1..Len(es) :
                  i < j =>
                     \/ ModulePosition(mod(i)) < ModulePosition(mod(j))
                     \/ mod(i) = mod(j) /\ LexLess(key(i), key(j))

\* "m2" and "m1" are loaded with X, Y and __name__ each, and so is "m0":
\* the snapshot is (m2, X), (m2, Y), (m1, X), (m1, Y).
C12_Witness ==
    /\ pc[1] = "store"
    /\ DOMAIN sys_modules = {Modules[1], Modules[2], OtherModule}
    /\ \A m \in DOMAIN sys_modules : DOMAIN sys_modules[m] = {AttrX, AttrY, AttrName}
    /\ Len(GetAttr(record[1], "entries").v) = 4
    /\ GetAttr(GetAttr(record[1], "entries").v[1], "module_name") = PyStr(<<109, 50>>)
    /\ GetAttr(GetAttr(record[1], "entries").v[4], "name") = PyStr(AttrY)

\* key is RECORD_PREFIX followed by the decimal digits of a positive integer.
IsRecordKey(key) ==
    /\ Len(key) > Len(RECORD_PREFIX)
    /\ SubSeq(key, 1, Len(RECORD_PREFIX)) = RECORD_PREFIX
    /\ LET digits == SubSeq(key, Len(RECORD_PREFIX) + 1, Len(key))
       IN  /\ \A i \in 1..Len(digits) : digits[i] >= 48 /\ digits[i] <= 57
           /\ digits[1] # 48

\* C13: every index trace() builds a record key from is a positive integer,
\* in every interleaving with evictions, also when the cache drops
\* INDEX_KEY between a trace's failed add and its incr; no snapshot is
\* stored under a key that is not RECORD_PREFIX followed by a positive
\* integer.
C13_PositiveIndex ==
    /\ \A p \in Tracers :
          pc[p] = "store" => index[p].t = "int" /\ index[p].v >= 1
    /\ \A key \in DOMAIN cache \ {INDEX_KEY} : IsRecordKey(key)

\* The value of the counter, 0 when the cache holds none.
Counter == IF INDEX_KEY \in DOMAIN cache THEN cache[INDEX_KEY].v ELSE 0

\* The index a record key is for.
KeyIndex(key) == DecimalValue(SubSeq(key, Len(RECORD_PREFIX) + 1, Len(key)))

\* The traces that have allocated i and not yet executed their store.
Holders(i) == {p \in Tracers : pc[p] = "store" /\ index[p] = PyInt(i)}

\* C14: with concurrent trace() calls and no eviction, in every reachable
\* state no record key has an index above the counter, and every index in
\* 1..counter either has its record stored or is held by exactly one trace
\* that has allocated it and not yet stored.  So when a get_records that
\* read the counter finds a candidate key absent, a trace holds that index
\* between its allocation and its store.
C14_CounterCoversRecords ==
    /\ \A key \in DOMAIN cache \ {INDEX_KEY} :
          IsRecordKey(key) /\ KeyIndex(key) <= Counter
    /\ \A i \in 1..Counter :
          IF RecordKey(PyInt(i)) \in DOMAIN cache
          THEN Holders(i) = {}
          ELSE Cardinality(Holders(i)) = 1
    /\ (rpc = "done" /\ rraw.t = "raise") =>
          /\ rraw.exc = "KeyError"
          /\ RECORD_PREFIX \o rraw.arg \notin DOMAIN cache
          /\ \E p \in Tracers : pc[p] = "store" /\ Str(index[p]) = rraw.arg

\* A get_records read the counter at 2 while a trace held index 2 without
\* having stored: the newest candidate key was absent, and the call raised.
C14_Witness ==
    /\ rpc = "done"
    /\ rcurr = PyInt(2)
    /\ rraw.t = "raise"
    /\ rraw.arg = FormatI(2)
    /\ Holders(2) # {}
    /\ RecordKey(PyInt(1)) \in DOMAIN cache
    /\ RecordKey(PyInt(2)) \notin DOMAIN cache

\* C15: with no eviction no snapshot is dropped.  In every interleaving of
\* concurrent trace() calls, the store of each trace finds its record key
\* absent, succeeds and puts that trace's own snapshot under the key of the
\* index it allocated; a stored record never changes; and when the N calls
\* made so far have all finished, the cache holds exactly N records, under
\* the indices 1..N.
C15_NoSnapshotDropped ==
    /\ []((\A p \in Tracers : pc[p] = "idle") =>
             /\ Counter = calls
             /\ DOMAIN cache \ {INDEX_KEY} = {RecordKey(PyInt(i)) : i \in 1..calls}
             /\ Cardinality(DOMAIN cache \ {INDEX_KEY}) = calls)
    /\ [][/\ \A p \in Tracers :
              (pc[p] = "store" /\ pc'[p] # "store") =>
                 /\ RecordKey(index[p]) \notin DOMAIN cache
                 /\ DOMAIN cache' = DOMAIN cache \cup {RecordKey(index[p])}
                 /\ cache'[RecordKey(index[p])] = EncodeJSON(record[p])
                 /\ ret' = [add |-> "true", exc |-> "none"]
          /\ \A key \in DOMAIN cache \ {INDEX_KEY} :
                 key \in DOMAIN cache' /\ cache'[key] = cache[key]]_vars

\* Three calls have finished: three records under
\* 1, 2 and 3, and those under 1 and 2 are different snapshots.
C15_Witness ==
    /\ calls = 3
    /\ \A p \in Tracers : pc[p] = "idle"
    /\ ret = [add |-> "true", exc |-> "none"]
    /\ DOMAIN cache = {INDEX_KEY, RecordKey(PyInt(1)), RecordKey(PyInt(2)), RecordKey(PyInt(3))}
    /\ cache[RecordKey(PyInt(1))] # cache[RecordKey(PyInt(2))]

WithKey(c, key, value) == [k \in DOMAIN c \cup {key} |-> IF k = key THEN value ELSE c[k]]

\* C17: a trace() call run without interference changes at most two keys
\* of the cache.  Its allocation creates the counter with value 1 or
\* raises it by exactly 1 and changes nothing else; its store adds at most
\* the record key of the index it allocated, with its own snapshot, and
\* leaves every other key and value as it was; and the allocation is
\* complete before the record is written (at the store the call holds the
\* value the counter has).
C17_TraceFrame ==
    /\ [](pc[1] = "incr" => INDEX_KEY \in DOMAIN cache)
    /\ [](pc[1] = "store" =>
             /\ index[1].t = "int"
             /\ INDEX_KEY \in DOMAIN cache
             /\ cache[INDEX_KEY] = index[1])
    /\ [][/\ (pc[1] = "idle" /\ pc'[1] # "idle") =>
              (IF INDEX_KEY \in DOMAIN cache
               THEN cache' = cache /\ pc'[1] = "incr"
               ELSE cache' = WithKey(cache, INDEX_KEY, PyInt(1)) /\ pc'[1] = "store")
          /\ (pc[1] = "incr" /\ pc'[1] # "incr") =>
              (/\ cache' = WithKey(cache, INDEX_KEY, PyInt(cache[INDEX_KEY].v + 1))
               /\ pc'[1] = "store")
          /\ (pc[1] = "store" /\ pc'[1] # "store") =>
              LET key == RECORD_PREFIX \o Decimal(index[1].v)
              IN  /\ pc'[1] = "idle"
                  /\ cache' \in {cache, WithKey(cache, key, EncodeJSON(record[1]))}
                  /\ \A k \in DOMAIN cache : k \in DOMAIN cache' /\ cache'[k] = cache[k]
                  /\ cache'[INDEX_KEY] = index[1]]_vars

\* The counter was dropped after two calls and a record after that; the
\* third call has created the counter with 1 again and its store, finding
\* the record of the first call under index 1, has added nothing.
C17_Witness ==
    /\ calls = 3
    /\ pc[1] = "idle"
    /\ ret = [add |-> "false", exc |-> "none"]
    /\ cache[INDEX_KEY] = PyInt(1)
    /\ DOMAIN cache = {INDEX_KEY, RecordKey(PyInt(1))}

=============================================================================
